---- MODULE Spec2Model ----
(***************************************************************************)
(* The accident-analysis ETL pipeline of src/etl_pipeline.py as a state    *)
(* machine: run_etl_pipeline's calls are the actions, the data frames, the *)
(* SQLite tables, the log and the raised exception are the state.          *)
(*                                                                         *)
(* Encoding of values                                                      *)
(*   timestamp   hours since 2024-01-01 00:00 (an integer >= 0), NaT = -1  *)
(*   date        days since 2024-01-01 (an integer >= 0), NaT = -1         *)
(*   numbers     integers, NaN = -1 (every real id of the model is >= 1)   *)
(*   strings     TLA+ strings, the null cell is the string None            *)
(*   data frame  a sequence of records; the pandas index label of row i is *)
(*               i - 1 (read_excel gives a RangeIndex starting at 0)       *)
(*                                                                         *)
(* Left out: the INFO records of the stages that succeed, the two warnings *)
(* about unmatched locations and dates (lines 293, 307), and the column    *)
(* ReportedAt_Date that populate_fact_accidents adds to accidents_df.      *)
(* A write of a frame without rows is modelled like any other write: it    *)
(* succeeds or the database refuses it.                                    *)
(***************************************************************************)
EXTENDS Integers, Sequences, FiniteSets, TLC

VARIABLES
    excel,               \* the three sheets of Traffic.xlsx
    vehicles_df,         \* data['Vehicles']
    accidents_df,        \* data['Accidents'], ReportedAt converted in place
    road_conditions_df,  \* data['RoadConditions'], RecordedAt converted in place
    dim_location_df,     \* what populate_dim_location returned
    dim_date_df,         \* what populate_dim_date returned
    db,                  \* accident_data_warehouse.db: table name -> schema and rows
    log,                 \* the records written through logging
    pc,                  \* the call run_etl_pipeline makes next
    executed,            \* the calls that were entered so far, in order
    raised,              \* the exception travelling up, or NoError
    rand_grain           \* distance between the outcomes of random.randint the
                         \* model enumerates (1: every integer of the range)

vars == <<excel, vehicles_df, accidents_df, road_conditions_df, dim_location_df,
          dim_date_df, db, log, pc, executed, raised, rand_grain>>

-----------------------------------------------------------------------------
(* Null values of pandas                                                   *)

NaT == -1
NaN == -1
None == "None"
NoError == "NoError"

-----------------------------------------------------------------------------
(* Calendar: pandas timestamps and datetime.date values                    *)

HoursPerDay == 24
EpochYear == 2024

IsLeap(y) == (y % 4 = 0 /\ y % 100 # 0) \/ y % 400 = 0

DaysInYear(y) == IF IsLeap(y) THEN 366 ELSE 365

DaysInMonth(y, m) ==
    IF m = 2 THEN (IF IsLeap(y) THEN 29 ELSE 28)
    ELSE IF m \in {4, 6, 9, 11} THEN 30 ELSE 31

RECURSIVE YearFrom(_, _)
YearFrom(d, y) == IF d < DaysInYear(y) THEN y ELSE YearFrom(d - DaysInYear(y), y + 1)

RECURSIVE DayOfYearFrom(_, _)
DayOfYearFrom(d, y) ==
    IF d < DaysInYear(y) THEN d ELSE DayOfYearFrom(d - DaysInYear(y), y + 1)

RECURSIVE MonthFrom(_, _, _)
MonthFrom(d, y, m) ==
    IF d < DaysInMonth(y, m) THEN m ELSE MonthFrom(d - DaysInMonth(y, m), y, m + 1)

YearOfDate(date) == YearFrom(date, EpochYear)

MonthOfDate(date) ==
    MonthFrom(DayOfYearFrom(date, EpochYear), YearFrom(date, EpochYear), 1)

\* Series.dt.year and Series.dt.month of a timestamp (NaN for NaT)
dt_year(ts) == IF ts = NaT THEN NaN ELSE YearOfDate(ts \div HoursPerDay)

dt_month(ts) == IF ts = NaT THEN NaN ELSE MonthOfDate(ts \div HoursPerDay)

\* Series.dt.date: the calendar date of a timestamp, the time of day dropped
dt_date(ts) == IF ts = NaT THEN NaT ELSE ts \div HoursPerDay

\* pd.to_datetime of a datetime.date: that date at 00:00
date_to_datetime(date) == IF date = NaT THEN NaT ELSE date * HoursPerDay

RECURSIVE DaysBeforeYear(_)
DaysBeforeYear(y) == IF y <= EpochYear THEN 0 ELSE DaysInYear(y - 1) + DaysBeforeYear(y - 1)

RECURSIVE DaysBeforeMonth(_, _)
DaysBeforeMonth(y, m) == IF m <= 1 THEN 0 ELSE DaysInMonth(y, m - 1) + DaysBeforeMonth(y, m - 1)

\* the timestamp y-m-d h:00
Timestamp(y, m, d, h) ==
    (DaysBeforeYear(y) + DaysBeforeMonth(y, m) + (d - 1)) * HoursPerDay + h

\* a cell of the sheet's timestamp column as read_excel returns it
DatetimeCell(ts) == [kind |-> "datetime", value |-> ts]
TextCell == [kind |-> "text", value |-> NaT]
EmptyCell == [kind |-> "empty", value |-> NaT]

\* pd.to_datetime(..., errors='coerce') of one cell: what does not parse is NaT
to_datetime_coerce(cell) == IF cell.kind = "datetime" THEN cell.value ELSE NaT

Abs(x) == IF x < 0 THEN -x ELSE x

-----------------------------------------------------------------------------
(* Sequence helpers                                                        *)

Range(s) == {s[i] : i \in 1..Len(s)}

\* positions of s that hold the first occurrence of their value
FirstPositions(s) == {i \in 1..Len(s) : \A j \in 1..(i - 1) : s[j] # s[i]}

RECURSIVE SortedSeq(_)
SortedSeq(S) ==
    IF S = {} THEN <<>>
    ELSE LET m == CHOOSE x \in S : \A y \in S : x <= y
         IN <<m>> \o SortedSeq(S \ {m})

\* the values without duplicates, each at the place of its LAST occurrence
unique_keep_last(s) ==
    LET pos == SortedSeq({i \in 1..Len(s) : \A j \in (i + 1)..Len(s) : s[j] # s[i]})
    IN [k \in 1..Len(pos) |-> s[pos[k]]]

\* Series.unique() and Series.drop_duplicates(): the values in order of first
\* appearance, a null value kept as one value like any other
unique(s) ==
    LET pos == SortedSeq(FirstPositions(s))
    IN [k \in 1..Len(pos) |-> s[pos[k]]]

Column(df, c) == [i \in 1..Len(df) |-> df[i][c]]

-----------------------------------------------------------------------------
(* The SQLite database                                                     *)

TableNames == {"Dim_Location", "Dim_Vehicle", "Dim_RoadCondition", "Dim_Date",
               "Fact_Accidents"}

NoSchema == [exists |-> FALSE, primary_key |-> None, unique |-> {}, foreign_keys |-> {}]

\* the schema of the CREATE TABLE statements of create_tables
DeclaredSchema(t) ==
    CASE t = "Dim_Location" ->
           [exists |-> TRUE, primary_key |-> "LocationID", unique |-> {"LocationName"},
            foreign_keys |-> {}]
      [] t = "Dim_Vehicle" ->
           [exists |-> TRUE, primary_key |-> "VehicleID", unique |-> {}, foreign_keys |-> {}]
      [] t = "Dim_RoadCondition" ->
           [exists |-> TRUE, primary_key |-> "RoadConditionID", unique |-> {},
            foreign_keys |-> {}]
      [] t = "Dim_Date" ->
           [exists |-> TRUE, primary_key |-> "DateID", unique |-> {}, foreign_keys |-> {}]
      [] t = "Fact_Accidents" ->
           [exists |-> TRUE, primary_key |-> "AccidentID", unique |-> {},
            foreign_keys |-> {<<"DateID", "Dim_Date">>, <<"LocationID", "Dim_Location">>,
                              <<"VehicleID", "Dim_Vehicle">>,
                              <<"RoadConditionID", "Dim_RoadCondition">>}]

\* the schema pandas creates for a frame: plain columns, no key, no constraint
InferredSchema ==
    [exists |-> TRUE, primary_key |-> None, unique |-> {}, foreign_keys |-> {}]

\* DataFrame.to_sql(t, engine, if_exists='replace', index=False): the table is
\* dropped and created again from the frame
to_sql(d, t, df) == [d EXCEPT ![t] = [schema |-> InferredSchema, rows |-> df]]

\* CREATE TABLE IF NOT EXISTS for the five tables
create_tables(d) ==
    [t \in TableNames |->
        IF d[t].schema.exists THEN d[t]
        ELSE [schema |-> DeclaredSchema(t), rows |-> <<>>]]

\* a database file in which no table exists yet
FreshDb == [t \in TableNames |-> [schema |-> NoSchema, rows |-> <<>>]]

-----------------------------------------------------------------------------
(* Logging and the order of run_etl_pipeline                               *)

LogRecord(level, fn, msg, id, loc) ==
    [level |-> level, fn |-> fn, msg |-> msg, id |-> id, loc |-> loc]

ErrorRecord(fn, exc) == LogRecord("ERROR", fn, exc, NaN, None)

\* the calls of run_etl_pipeline in the order of its statements
run_etl_pipeline ==
    <<"load_excel_file", "convert_timestamps_ReportedAt", "convert_timestamps_RecordedAt",
      "create_tables", "populate_dim_location", "populate_dim_vehicle",
      "populate_dim_road_condition", "populate_dim_date", "populate_fact_accidents",
      "validate_database">>

IndexOf(s, x) == CHOOSE i \in 1..Len(s) : s[i] = x

\* the statement that follows the call fn when fn returns
After(fn) ==
    LET i == IndexOf(run_etl_pipeline, fn)
    IN IF i < Len(run_etl_pipeline) THEN run_etl_pipeline[i + 1] ELSE "log_completed"

\* fn returns normally: the driver goes on to its next statement
Returns(fn, records) ==
    /\ pc' = After(fn)
    /\ executed' = Append(executed, fn)
    /\ log' = log \o records
    /\ raised' = raised

\* an except clause that logs the error and does not raise it again
RaisesSwallowed(fn, exc, records) ==
    /\ pc' = After(fn)
    /\ executed' = Append(executed, fn)
    /\ log' = (log \o records) \o <<ErrorRecord(fn, exc)>>
    /\ raised' = raised

\* fn's except clause: the error is logged and raised again, which leaves
\* run_etl_pipeline, as it catches nothing
Raises(fn, exc, records) ==
    /\ pc' = "raised"
    /\ executed' = Append(executed, fn)
    /\ log' = (log \o records) \o <<ErrorRecord(fn, exc)>>
    /\ raised' = exc

-----------------------------------------------------------------------------
(* random.randint                                                          *)

\* a generator whose range starts one too low
randint_from_below(a, b) == {x \in (a - 1)..b : (x - a) % rand_grain = 0 \/ x = b \/ x = a - 1}

\* random.randint(a, b): an integer of a..b, both ends included. With
\* rand_grain = 1 every integer of the range is an outcome; a larger grain
\* enumerates a, a + grain, ... and b.
randint(a, b) == {x \in a..b : (x - a) % rand_grain = 0 \/ x = b}

VehicleIdMax == 200
FallbackIdMax == 100

-----------------------------------------------------------------------------
(* The dimension builders                                                  *)

\* convert_timestamps(df, column): the column through pd.to_datetime(errors='coerce')
convert_timestamps(df, column) ==
    [i \in 1..Len(df) |-> [df[i] EXCEPT ![column] = to_datetime_coerce(df[i][column])]]

\* the frame populate_dim_location builds from accidents_df['Location'].unique()
DimLocationFrame(accidents) ==
    LET names == unique(Column(accidents, "Location"))
    IN [i \in 1..Len(names) |-> [LocationID |-> i, LocationName |-> names[i]]]

\* DataFrame.dropna() of the projection of df on two or three string/number columns
DimVehicleFrame(vehicles) ==
    LET proj == [i \in 1..Len(vehicles) |->
                    [VehicleID |-> vehicles[i].VehicleID,
                     VehicleType |-> vehicles[i].VehicleType]]
    IN SelectSeq(proj, LAMBDA r : r.VehicleID # NaN /\ r.VehicleType # None)

DimRoadConditionFrame(conditions) ==
    LET proj == [i \in 1..Len(conditions) |->
                    [ConditionID |-> conditions[i].ConditionID,
                     Surface |-> conditions[i].Surface,
                     Visibility |-> conditions[i].Visibility]]
    IN SelectSeq(proj, LAMBDA r : r.ConditionID # NaN /\ r.Surface # None
                                     /\ r.Visibility # None)

\* the frame populate_dim_date builds: the dates of ReportedAt without
\* duplicates, and the columns derived from those dates turned into timestamps
DimDateFrame(accidents) ==
    LET reported == Column(accidents, "ReportedAt")
        unique_dates == unique([i \in 1..Len(reported) |-> dt_date(reported[i])])
        unique_dates_dt == [i \in 1..Len(unique_dates) |-> date_to_datetime(unique_dates[i])]
    IN [i \in 1..Len(unique_dates) |->
           [DateID |-> i,
            Date |-> unique_dates[i],
            Month |-> dt_month(unique_dates_dt[i]),
            Year |-> dt_year(unique_dates_dt[i]),
            Time |-> unique_dates_dt[i]]]

-----------------------------------------------------------------------------
(* The fact builder                                                        *)

\* DataFrame.merge(right, left_on=, right_on=, how='left'): every left row once
\* per right row with an equal key (a null key equals a null key), in the
\* order of the left frame; a left row without a partner gets the nulls
RECURSIVE merge_left(_, _, _, _, _)
merge_left(left, right, left_on, right_on, nulls) ==
    IF left = <<>> THEN <<>>
    ELSE LET l == Head(left)
             partners == SelectSeq(right, LAMBDA r : r[right_on] = l[left_on])
             joined == IF partners = <<>> THEN <<l @@ nulls>>
                       ELSE [k \in 1..Len(partners) |-> l @@ partners[k]]
         IN joined \o merge_left(Tail(left), right, left_on, right_on, nulls)

\* the null value of a column of the merged frame
NullOf(c) == IF c \in {"Location", "Severity", "LocationName"} THEN None ELSE NaT

MergedColumns == {"ReportedAt", "Location", "VehiclesInvolved", "Severity",
                  "ReportedAt_Date", "DateID", "Date", "LocationID", "LocationName"}

\* GroupBy.first() of one column: the first value of the group that is not null
FirstValid(s, null) ==
    LET valid == {i \in 1..Len(s) : s[i] # null}
    IN IF valid = {} THEN null
       ELSE s[CHOOSE i \in valid : \A j \in valid : i <= j]

\* a grouping that forgets to reduce the groups: every row is kept
groupby_keep_all(df) ==
    [i \in 1..Len(df) |-> [c \in MergedColumns \cup {"AccidentID"} |-> df[i][c]]]

\* df.groupby('AccidentID').first().reset_index(): one row per AccidentID that is
\* not null, the groups in ascending order of AccidentID, every column of a
\* group reduced on its own
groupby_first(df) ==
    LET keys == SortedSeq({df[i].AccidentID : i \in 1..Len(df)} \ {NaN})
        Group(id) == SelectSeq(df, LAMBDA r : r.AccidentID = id)
    IN [k \in 1..Len(keys) |->
           [c \in MergedColumns |-> FirstValid(Column(Group(keys[k]), c), NullOf(c))]
           @@ [AccidentID |-> keys[k]]]

\* lines 296-318: the accidents with DateID and LocationID merged in, one row
\* per AccidentID
accidents_with_location(accidents, dim_date, dim_location) ==
    LET with_day == [i \in 1..Len(accidents) |->
                        accidents[i] @@ [ReportedAt_Date |-> dt_date(accidents[i].ReportedAt)]]
        date_keys == [i \in 1..Len(dim_date) |->
                        [DateID |-> dim_date[i].DateID, Date |-> dim_date[i].Date]]
        with_date == merge_left(with_day, date_keys, "ReportedAt_Date", "Date",
                                [DateID |-> NaN, Date |-> NaT])
        with_loc == merge_left(with_date, dim_location, "Location", "LocationName",
                               [LocationID |-> NaN, LocationName |-> None])
    IN groupby_first(with_loc)

\* road_conditions_df[road_conditions_df['Location'] == accident_location]: the
\* positions (label + 1) of the rows kept, in order
matching_conditions(conditions, accident_location) ==
    SortedSeq({j \in 1..Len(conditions) :
                  conditions[j].Location # None /\ conditions[j].Location = accident_location})

\* (matching_conditions['RecordedAt'] - reported_at).abs() at row position j
time_diff(conditions, j, reported_at) ==
    IF conditions[j].RecordedAt = NaT THEN NaT
    ELSE Abs(conditions[j].RecordedAt - reported_at)

\* Series.idxmin(): the index LABEL of the first smallest value, nulls
\* skipped; NaN when every value is null
idxmin(conditions, matching, reported_at) ==
    LET valid == {k \in 1..Len(matching) : time_diff(conditions, matching[k], reported_at) # NaT}
        least == {k \in valid : \A m \in valid :
                    time_diff(conditions, matching[k], reported_at)
                        <= time_diff(conditions, matching[m], reported_at)}
    IN IF valid = {} THEN NaN
       ELSE matching[CHOOSE k \in least : \A m \in least : k <= m] - 1

\* matching_conditions.iloc[n]: the row at POSITION n of the filtered frame
\* (0-based); outside the frame it raises IndexError, on NaN TypeError
iloc(matching, n) ==
    IF n = NaN THEN [error |-> "TypeError", pos |-> 0]
    ELSE IF n >= Len(matching) THEN [error |-> "IndexError", pos |-> 0]
    ELSE [error |-> NoError, pos |-> matching[n + 1]]

severity_map(severity) ==
    CASE severity = "Minor" -> 1
      [] severity = "Moderate" -> 2
      [] severity = "Severe" -> 3
      [] OTHER -> 1

\* one pass of the row loop (lines 322-361) for row, with the outcomes
\* vehicle_draw and fallback_draw of the two random.randint calls
fact_row(row, conditions, vehicle_draw, fallback_draw) ==
    IF row.ReportedAt = NaT \/ row.Location = None
    THEN [error |-> NoError, rows |-> <<>>,
          log |-> <<LogRecord("WARNING", "populate_fact_accidents", "Skipping row",
                              row.AccidentID, row.Location)>>]
    ELSE LET matching == matching_conditions(conditions, row.Location)
             closest == iloc(matching, idxmin(conditions, matching, row.ReportedAt))
             road_condition_id == IF matching # <<>>
                                  THEN conditions[closest.pos].ConditionID
                                  ELSE fallback_draw
         IN IF matching # <<>> /\ closest.error # NoError
            THEN [error |-> closest.error, rows |-> <<>>, log |-> <<>>]
            ELSE [error |-> NoError,
                  rows |-> <<[AccidentID |-> row.AccidentID,
                              DateID |-> row.DateID,
                              LocationID |-> row.LocationID,
                              VehicleID |-> vehicle_draw,
                              RoadConditionID |-> road_condition_id,
                              VehiclesInvolved |-> row.VehiclesInvolved,
                              SeverityScore |-> severity_map(row.Severity)]>>,
                  log |-> IF matching # <<>> THEN <<>>
                          ELSE <<LogRecord("INFO", "populate_fact_accidents",
                                           "using random RoadConditionID",
                                           road_condition_id, row.Location)>>]

\* the row loop over rows i..Len(rows); it stops at the first row that raises
RECURSIVE fact_loop(_, _, _, _, _)
fact_loop(rows, i, conditions, vehicle_draws, fallback_draws) ==
    IF i > Len(rows) THEN [error |-> NoError, rows |-> <<>>, log |-> <<>>]
    ELSE LET one == fact_row(rows[i], conditions, vehicle_draws[i], fallback_draws[i])
             rest == fact_loop(rows, i + 1, conditions, vehicle_draws, fallback_draws)
         IN IF one.error # NoError THEN one
            ELSE [error |-> rest.error,
                  rows |-> one.rows \o rest.rows,
                  log |-> one.log \o rest.log]

-----------------------------------------------------------------------------
(* The calls of run_etl_pipeline                                           *)

frames == <<vehicles_df, accidents_df, road_conditions_df>>
dims == <<dim_location_df, dim_date_df>>

\* load_excel_file: the file may be absent, a sheet may be absent
LoadExcelFile ==
    /\ pc = "load_excel_file"
    /\ \/ /\ Raises("load_excel_file", "FileNotFoundError",
                    <<ErrorRecord("load_excel_file", "Excel file not found")>>)
          /\ UNCHANGED frames
       \/ /\ Raises("load_excel_file", "ValueError",
                    <<ErrorRecord("load_excel_file", "Missing required sheets")>>)
          /\ UNCHANGED frames
       \/ /\ vehicles_df' = excel.Vehicles
          /\ accidents_df' = excel.Accidents
          /\ road_conditions_df' = excel.RoadConditions
          /\ Returns("load_excel_file", <<>>)
    /\ UNCHANGED <<excel, dims, db, rand_grain>>

ConvertReportedAt ==
    /\ pc = "convert_timestamps_ReportedAt"
    /\ accidents_df' = convert_timestamps(accidents_df, "ReportedAt")
    /\ Returns("convert_timestamps_ReportedAt", <<>>)
    /\ UNCHANGED <<excel, vehicles_df, road_conditions_df, dims, db, rand_grain>>

ConvertRecordedAt ==
    /\ pc = "convert_timestamps_RecordedAt"
    /\ road_conditions_df' = convert_timestamps(road_conditions_df, "RecordedAt")
    /\ Returns("convert_timestamps_RecordedAt", <<>>)
    /\ UNCHANGED <<excel, vehicles_df, accidents_df, dims, db, rand_grain>>

\* a statement sent to the database fails (file locked, disk full, ...)
SinkFails(fn, records) ==
    /\ Raises(fn, "OperationalError", records)
    /\ UNCHANGED db

CreateTables ==
    /\ pc = "create_tables"
    /\ \/ /\ db' = create_tables(db)
          /\ Returns("create_tables", <<>>)
       \/ SinkFails("create_tables", <<>>)
    /\ UNCHANGED <<excel, frames, dims, rand_grain>>

PopulateDimLocation ==
    /\ pc = "populate_dim_location"
    /\ \/ /\ db' = to_sql(db, "Dim_Location", DimLocationFrame(accidents_df))
          /\ dim_location_df' = DimLocationFrame(accidents_df)
          /\ Returns("populate_dim_location", <<>>)
       \/ /\ SinkFails("populate_dim_location", <<>>)
          /\ UNCHANGED dim_location_df
    /\ UNCHANGED <<excel, frames, dim_date_df, rand_grain>>

PopulateDimVehicle ==
    /\ pc = "populate_dim_vehicle"
    /\ \/ /\ db' = to_sql(db, "Dim_Vehicle", DimVehicleFrame(vehicles_df))
          /\ Returns("populate_dim_vehicle", <<>>)
       \/ SinkFails("populate_dim_vehicle", <<>>)
    /\ UNCHANGED <<excel, frames, dims, rand_grain>>

PopulateDimRoadCondition ==
    /\ pc = "populate_dim_road_condition"
    /\ \/ /\ db' = to_sql(db, "Dim_RoadCondition", DimRoadConditionFrame(road_conditions_df))
          /\ Returns("populate_dim_road_condition", <<>>)
       \/ SinkFails("populate_dim_road_condition", <<>>)
    /\ UNCHANGED <<excel, frames, dims, rand_grain>>

PopulateDimDate ==
    /\ pc = "populate_dim_date"
    /\ \/ /\ db' = to_sql(db, "Dim_Date", DimDateFrame(accidents_df))
          /\ dim_date_df' = DimDateFrame(accidents_df)
          /\ Returns("populate_dim_date", <<>>)
       \/ /\ SinkFails("populate_dim_date", <<>>)
          /\ UNCHANGED dim_date_df
    /\ UNCHANGED <<excel, frames, dim_location_df, rand_grain>>

\* populate_fact_accidents: the merges, the row loop with its random draws,
\* then the write of the fact table; an exception of the loop leaves the
\* table as it was
PopulateFactAccidents ==
    /\ pc = "populate_fact_accidents"
    /\ LET rows == accidents_with_location(accidents_df, dim_date_df, dim_location_df)
       IN \E vehicle_draws \in [1..Len(rows) -> randint(1, VehicleIdMax)],
             fallback_draws \in [1..Len(rows) -> randint(1, FallbackIdMax)] :
             LET built == fact_loop(rows, 1, road_conditions_df, vehicle_draws, fallback_draws)
             IN IF built.error # NoError
                THEN /\ Raises("populate_fact_accidents", built.error, built.log)
                     /\ UNCHANGED db
                ELSE \/ /\ db' = to_sql(db, "Fact_Accidents", built.rows)
                        /\ Returns("populate_fact_accidents", built.log)
                     \/ SinkFails("populate_fact_accidents", built.log)
    /\ UNCHANGED <<excel, frames, dims, rand_grain>>

\* validate_database: row counts of the five tables, read only
ValidateDatabase ==
    /\ pc = "validate_database"
    /\ \/ /\ \A t \in TableNames : db[t].schema.exists
          /\ Returns("validate_database",
                     [i \in 1..Len(SortedSeq({1, 2, 3, 4, 5})) |->
                         LET t == <<"Dim_Location", "Dim_Vehicle", "Dim_RoadCondition",
                                    "Dim_Date", "Fact_Accidents">>[i]
                         IN LogRecord("INFO", "validate_database", t, Len(db[t].rows), None)])
       \/ Raises("validate_database", "OperationalError", <<>>)
    /\ UNCHANGED <<excel, frames, dims, db, rand_grain>>

\* the last statement of run_etl_pipeline
LogCompleted ==
    /\ pc = "log_completed"
    /\ log' = Append(log, LogRecord("INFO", "run_etl_pipeline",
                                    "ETL pipeline completed successfully.", NaN, None))
    /\ pc' = "returned"
    /\ UNCHANGED <<excel, frames, dims, db, executed, raised, rand_grain>>

\* the except clause of the entry point: log, raise again
MainExcept ==
    /\ pc = "raised"
    /\ log' = Append(log, LogRecord("ERROR", "__main__", "ETL pipeline failed", NaN, None))
    /\ pc' = "exit_failure"
    /\ UNCHANGED <<excel, frames, dims, db, executed, raised, rand_grain>>

Next ==
    \/ LoadExcelFile
    \/ ConvertReportedAt
    \/ ConvertRecordedAt
    \/ CreateTables
    \/ PopulateDimLocation
    \/ PopulateDimVehicle
    \/ PopulateDimRoadCondition
    \/ PopulateDimDate
    \/ PopulateFactAccidents
    \/ ValidateDatabase
    \/ LogCompleted
    \/ MainExcept

-----------------------------------------------------------------------------
(* Inputs                                                                  *)

SeqsUpTo(S, n) == UNION {[1..k -> S] : k \in 0..n}

AccidentRecord(id, cell, loc, n, sev) ==
    [AccidentID |-> id, ReportedAt |-> cell, Location |-> loc,
     VehiclesInvolved |-> n, Severity |-> sev]

\* accident rows: an AccidentID with a <<ReportedAt cell, Location>> pair
AccidentRecords(ids, pairs) ==
    {AccidentRecord(id, p[1], p[2], 2, "Severe") : id \in ids, p \in pairs}

\* road-condition sheets of up to n rows; row i has the ConditionID 100 + i
ConditionSheets(locs, cells, n) ==
    {[i \in 1..Len(f) |->
         [ConditionID |-> 100 + i, Location |-> f[i][1], RecordedAt |-> f[i][2],
          Surface |-> "Dry", Visibility |-> "Clear"]] :
     f \in SeqsUpTo(locs \X cells, n)}

VehicleSheet ==
    <<[VehicleID |-> 1, VehicleType |-> "Car"], [VehicleID |-> 2, VehicleType |-> None]>>

\* 2024-01-01 10:00 and 13:00, 2024-01-02 09:00, 2025-03-01 00:00
T1 == Timestamp(2024, 1, 1, 10)
T1b == Timestamp(2024, 1, 1, 13)
T2 == Timestamp(2024, 1, 2, 9)
T3 == Timestamp(2025, 3, 1, 0)

InitWith(accident_sheets, condition_sheets, grain) ==
    /\ excel \in [Vehicles : {VehicleSheet}, Accidents : accident_sheets,
                  RoadConditions : condition_sheets]
    /\ vehicles_df = <<>>
    /\ accidents_df = <<>>
    /\ road_conditions_df = <<>>
    /\ dim_location_df = <<>>
    /\ dim_date_df = <<>>
    /\ db = FreshDb
    /\ log = <<>>
    /\ pc = run_etl_pipeline[1]
    /\ executed = <<>>
    /\ raised = NoError
    /\ rand_grain = grain

MaxAcc == 2
MaxCond == 1
RandGrain == 199

\* Spec: the whole pipeline on sheets with repeated AccidentIDs, empty
\* ReportedAt and Location cells, two dates and two locations
Init ==
    InitWith(SeqsUpTo(AccidentRecords({1, 2},
                                      {<<EmptyCell, "Elm St">>, <<DatetimeCell(T1), None>>,
                                       <<DatetimeCell(T1), "Elm St">>,
                                       <<DatetimeCell(T2), "Oak Ave">>}), MaxAcc),
             ConditionSheets({"Elm St", "Oak Ave"}, {DatetimeCell(T1b)}, MaxCond),
             RandGrain)

Spec == Init /\ [][Next]_vars

MaxDimAcc == 3

\* SpecDim: sheets that vary the Location column alone, and sheets that vary
\* the ReportedAt column alone
InitDim ==
    InitWith(SeqsUpTo(AccidentRecords({1}, {DatetimeCell(T1)} \X {None, "Elm St", "Oak Ave",
                                                                    "Pine Rd"}), MaxDimAcc)
               \cup SeqsUpTo(AccidentRecords({1}, {EmptyCell, TextCell, DatetimeCell(T1),
                                                   DatetimeCell(T1b), DatetimeCell(T3)}
                                                  \X {"Elm St"}), MaxDimAcc),
             {<<>>},
             RandGrain)

SpecDim == InitDim /\ [][Next]_vars

MaxMatchCond == 3

\* SpecMatch: one accident at Elm St at 10:00 against road-condition sheets
\* whose rows are at either location, recorded at 09:00, 11:00, 13:00 or never
InitMatch ==
    InitWith({<<r>> : r \in AccidentRecords({1}, {<<DatetimeCell(T1), "Elm St">>})},
             ConditionSheets({"Elm St", "Oak Ave"},
                             {EmptyCell, DatetimeCell(Timestamp(2024, 1, 1, 9)),
                              DatetimeCell(Timestamp(2024, 1, 1, 11)), DatetimeCell(T1b)},
                             MaxMatchCond),
             RandGrain)

SpecMatch == InitMatch /\ [][Next]_vars

\* SpecRand: every outcome of random.randint, for one accident that is
\* skipped, matched or given the random fallback
InitRand ==
    InitWith({<<r>> : r \in AccidentRecords({1}, {<<DatetimeCell(T1), "Elm St">>,
                                                  <<EmptyCell, "Elm St">>})},
             ConditionSheets({"Elm St", "Oak Ave"}, {DatetimeCell(T1b)}, 1),
             1)

SpecRand == InitRand /\ [][Next]_vars

\* accident rows that also vary <<VehiclesInvolved, Severity>>
AccidentRecordsWith(ids, pairs, measures) ==
    {AccidentRecord(id, p[1], p[2], m[1], m[2]) : id \in ids, p \in pairs, m \in measures}

\* SpecFirst: sheets that repeat an AccidentID with records differing in every
\* column, some cells of a record empty
InitFirst ==
    InitWith(SeqsUpTo(AccidentRecordsWith({1, 2},
                                          {<<EmptyCell, "Elm St">>, <<DatetimeCell(T1), None>>,
                                           <<DatetimeCell(T1), "Elm St">>,
                                           <<DatetimeCell(T2), "Oak Ave">>},
                                          {<<NaN, None>>, <<1, "Minor">>, <<2, "Unknown">>,
                                           <<3, "Severe">>}), MaxAcc),
             {<<>>},
             RandGrain)

SpecFirst == InitFirst /\ [][Next]_vars

-----------------------------------------------------------------------------
(* Properties                                                              *)

Last(s) == s[Len(s)]

\* the call fn was made and returned without raising
Returned(fn) ==
    \E i \in 1..Len(executed) :
        /\ executed[i] = fn
        /\ i < Len(executed) \/ pc \notin {"raised", "exit_failure"}

FactRows == db["Fact_Accidents"].rows

\* the row of the merged, grouped frame a fact row was built from
SourceRow(f) ==
    LET rows == accidents_with_location(accidents_df, dim_date_df, dim_location_df)
    IN rows[CHOOSE k \in 1..Len(rows) : rows[k].AccidentID = f.AccidentID]

\* the positions of the road-condition rows at location loc
SameLocation(loc) ==
    {j \in 1..Len(road_conditions_df) : road_conditions_df[j].Location = loc}

\* the same-location row nearest in time to reported_at, the first of them on a tie
Nearest(loc, reported_at) ==
    LET timed == {j \in SameLocation(loc) : road_conditions_df[j].RecordedAt # NaT}
        dist(j) == Abs(road_conditions_df[j].RecordedAt - reported_at)
    IN CHOOSE j \in timed :
           \A k \in timed : dist(j) < dist(k) \/ (dist(j) = dist(k) /\ j <= k)

\* C1: every emitted fact row whose accident location has road-condition
\* records carries the ConditionID of the same-location record nearest in time
\* to ReportedAt (the first of them on a tie), wherever those records stand in
\* the road-condition sheet.
C1_NearestConditionChosen ==
    Returned("populate_fact_accidents") =>
        \A i \in 1..Len(FactRows) :
            LET f == FactRows[i]
                row == SourceRow(f)
            IN (\E j \in SameLocation(row.Location) : road_conditions_df[j].RecordedAt # NaT)
                   => f.RoadConditionID
                        = road_conditions_df[Nearest(row.Location, row.ReportedAt)].ConditionID

\* C2: the fact table never holds two rows with the same AccidentID, also
\* when the accident sheet repeats an AccidentID.
C2_AccidentIdUnique ==
    \A i, j \in 1..Len(FactRows) :
        FactRows[i].AccidentID = FactRows[j].AccidentID => i = j

\* a sheet with two complete rows of one AccidentID went through the fact builder
C2_Witness ==
    /\ Returned("populate_fact_accidents")
    /\ \E i, j \in 1..Len(accidents_df) :
          /\ i < j
          /\ accidents_df[i].AccidentID = accidents_df[j].AccidentID
          /\ accidents_df[i].ReportedAt # NaT /\ accidents_df[i].Location # None
          /\ accidents_df[j].ReportedAt # NaT /\ accidents_df[j].Location # None
          /\ \E k \in 1..Len(FactRows) : FactRows[k].AccidentID = accidents_df[i].AccidentID

\* C3: whatever the rows of the two sheets, populate_fact_accidents does not
\* raise on them: it ends abnormally only when the database refuses the write.
C3_FactBuildNeverAbortsOnData ==
    (raised # NoError /\ Last(executed) = "populate_fact_accidents")
        => raised = "OperationalError"

\* C4: with the dimensions built from the accident sheet that feeds the fact
\* builder, every emitted fact row has a DateID carried by exactly one Dim_Date
\* row, whose Date is the calendar date of a ReportedAt of that accident, and a
\* LocationID carried by exactly one Dim_Location row, whose LocationName is a
\* Location of that accident; neither id is missing.
C4_FactReferencesResolve ==
    Returned("populate_fact_accidents") =>
        \A i \in 1..Len(FactRows) :
            LET f == FactRows[i]
                records == {k \in 1..Len(accidents_df) :
                               accidents_df[k].AccidentID = f.AccidentID}
                date_rows == {k \in 1..Len(dim_date_df) : dim_date_df[k].DateID = f.DateID}
                loc_rows == {k \in 1..Len(dim_location_df) :
                                dim_location_df[k].LocationID = f.LocationID}
            IN /\ f.DateID # NaN /\ f.LocationID # NaN
               /\ Cardinality(date_rows) = 1
               /\ Cardinality(loc_rows) = 1
               /\ \A k \in date_rows : \E r \in records :
                     /\ accidents_df[r].ReportedAt # NaT
                     /\ dim_date_df[k].Date = dt_date(accidents_df[r].ReportedAt)
               /\ \A k \in loc_rows : \E r \in records :
                     /\ accidents_df[r].Location # None
                     /\ dim_location_df[k].LocationName = accidents_df[r].Location

\* the first row of the accident sheet that falls on the date d
FirstOnDate(d) ==
    CHOOSE i \in 1..Len(accidents_df) :
        /\ dt_date(accidents_df[i].ReportedAt) = d
        /\ \A j \in 1..(i - 1) : dt_date(accidents_df[j].ReportedAt) # d

\* C5: the Time of every Dim_Date row is the ReportedAt timestamp of the first
\* accident of the sheet on that row's date, its time of day kept.
C5_TimeIsFirstTimestamp ==
    Returned("populate_dim_date") =>
        \A k \in 1..Len(dim_date_df) :
            dim_date_df[k].Time = accidents_df[FirstOnDate(dim_date_df[k].Date)].ReportedAt

\* C6: after a complete run the five tables still have the schema create_tables
\* declared: primary keys, the unique LocationName and the four foreign keys of
\* the fact table.
C6_DeclaredSchemaKept ==
    pc = "returned" => \A t \in TableNames : db[t].schema = DeclaredSchema(t)

IsPrefix(s, t) == Len(s) <= Len(t) /\ \A i \in 1..Len(s) : s[i] = t[i]

ClaimedOrder ==
    <<"load_excel_file", "convert_timestamps_ReportedAt", "convert_timestamps_RecordedAt",
      "create_tables", "populate_dim_location", "populate_dim_vehicle",
      "populate_dim_road_condition", "populate_dim_date", "populate_fact_accidents",
      "validate_database">>

StageErrors == {k \in 1..Len(log) : log[k].level = "ERROR" /\ log[k].fn # "__main__"}

Completed ==
    \/ pc = "returned"
    \/ \E k \in 1..Len(log) : log[k].msg = "ETL pipeline completed successfully."

C7_State ==
    /\ IsPrefix(executed, ClaimedOrder)
    /\ \A k \in StageErrors :
          /\ log[k].fn = Last(executed)
          /\ raised # NoError
          /\ pc \in {"raised", "exit_failure"}
    /\ raised # NoError => \E k \in StageErrors : log[k].fn = Last(executed)
    /\ Completed => executed = ClaimedOrder /\ raised = NoError /\ StageErrors = {}

\* C7: the stages run in the order load, the two timestamp conversions,
\* create_tables, the four dimension builders, the fact builder, validate; once
\* a stage has raised no further stage runs, the error is in the log and stays
\* raised towards the caller, and the run is reported completed only after all
\* ten stages returned without error.
C7_FailFastInOrder ==
    /\ []C7_State
    /\ [][raised # NoError => (executed' = executed /\ raised' = raised)]_vars

\* a run that stopped in populate_dim_date and went through the entry point's handler
C7_Witness ==
    /\ pc = "exit_failure"
    /\ raised = "OperationalError"
    /\ Last(executed) = "populate_dim_date"
    /\ Len(executed) = 8

FirstIndex(s, v) == CHOOSE i \in 1..Len(s) : s[i] = v /\ \A j \in 1..(i - 1) : s[j] # v

\* C8: populate_dim_location returns LocationIDs 1..n in row order and
\* LocationNames without repetition that are, as a set, the values of the
\* Location column (an empty cell counting as one value), in the order in which
\* they first appear in the sheet.
C8_LocationDim ==
    Returned("populate_dim_location") =>
        LET names == Column(dim_location_df, "LocationName")
            input == Column(accidents_df, "Location")
        IN /\ \A i \in 1..Len(dim_location_df) : dim_location_df[i].LocationID = i
           /\ \A i, j \in 1..Len(names) : names[i] = names[j] => i = j
           /\ Range(names) = Range(input)
           /\ \A i, j \in 1..Len(names) :
                 i < j => FirstIndex(input, names[i]) < FirstIndex(input, names[j])

\* a sheet in which a location comes back after another one
C8_Witness ==
    /\ Returned("populate_dim_location")
    /\ Len(dim_location_df) = 2
    /\ Len(accidents_df) = 3
    /\ accidents_df[1].Location = accidents_df[3].Location
    /\ accidents_df[1].Location # accidents_df[2].Location

\* C9: populate_dim_date returns one row for every calendar date among the
\* ReportedAt values and no other row, DateID 1..n in order of first
\* appearance, Month and Year those of the row's Date; this also on sheets with
\* empty or unparseable ReportedAt cells.
C9_DateDim ==
    Returned("populate_dim_date") =>
        LET dates == {dt_date(accidents_df[i].ReportedAt) :
                         i \in {j \in 1..Len(accidents_df) : accidents_df[j].ReportedAt # NaT}}
        IN /\ \A d \in dates :
                 Cardinality({k \in 1..Len(dim_date_df) : dim_date_df[k].Date = d}) = 1
           /\ \A k \in 1..Len(dim_date_df) :
                 /\ dim_date_df[k].Date \in dates
                 /\ dim_date_df[k].DateID = k
                 /\ dim_date_df[k].Month = MonthOfDate(dim_date_df[k].Date)
                 /\ dim_date_df[k].Year = YearOfDate(dim_date_df[k].Date)
           /\ \A i, j \in 1..Len(dim_date_df) :
                 i < j => FirstOnDate(dim_date_df[i].Date) < FirstOnDate(dim_date_df[j].Date)

FallbackRecords == {k \in 1..Len(log) : log[k].msg = "using random RoadConditionID"}

\* C10: every emitted fact row has a VehicleID in 1..200; a row whose accident
\* location has no road-condition record has a RoadConditionID in 1..100; and
\* the random fallback is drawn only for such rows: a row whose location has
\* records carries the ConditionID of one of them.
C10_RandomIdsInRange ==
    /\ \A k \in FallbackRecords : SameLocation(log[k].loc) = {} /\ log[k].id \in 1..100
    /\ Returned("populate_fact_accidents") =>
          \A i \in 1..Len(FactRows) :
              LET f == FactRows[i]
                  same == SameLocation(SourceRow(f).Location)
              IN /\ f.VehicleID \in 1..200
                 /\ same = {} => f.RoadConditionID \in 1..100
                 /\ same = {} => \E k \in FallbackRecords : log[k].id = f.RoadConditionID
                 /\ same # {} =>
                       f.RoadConditionID \in {road_conditions_df[j].ConditionID : j \in same}

\* a row with the largest VehicleID and the largest fallback RoadConditionID
C10_Witness ==
    /\ Returned("populate_fact_accidents")
    /\ \E i \in 1..Len(FactRows) :
          /\ SameLocation(SourceRow(FactRows[i]).Location) = {}
          /\ FactRows[i].VehicleID = 200
          /\ FactRows[i].RoadConditionID = 100

\* the first row of the accident sheet with the AccidentID id
FirstRecord(id) ==
    accidents_df[CHOOSE k \in 1..Len(accidents_df) :
                    /\ accidents_df[k].AccidentID = id
                    /\ \A j \in 1..(k - 1) : accidents_df[j].AccidentID # id]

RepeatedIds ==
    {accidents_df[i].AccidentID : i \in {k \in 1..Len(accidents_df) :
        \E j \in 1..Len(accidents_df) :
            j # k /\ accidents_df[j].AccidentID = accidents_df[k].AccidentID}}

ScoreOf(severity) ==
    IF severity = "Minor" THEN 1
    ELSE IF severity = "Moderate" THEN 2
    ELSE IF severity = "Severe" THEN 3 ELSE 1

\* C11: of the records that share an AccidentID the fact builder keeps the
\* first of the sheet as a whole: the fact row's VehiclesInvolved, SeverityScore
\* (1 for a missing or unknown Severity), date and location are those of that
\* first record, and when its ReportedAt or Location is empty the AccidentID
\* has no fact row.
C11_FirstOccurrenceKept ==
    Returned("populate_fact_accidents") =>
        \A id \in RepeatedIds :
            LET first == FirstRecord(id)
                rows == {i \in 1..Len(FactRows) : FactRows[i].AccidentID = id}
            IN IF first.ReportedAt = NaT \/ first.Location = None
               THEN rows = {}
               ELSE /\ Cardinality(rows) = 1
                    /\ \A i \in rows :
                          /\ FactRows[i].VehiclesInvolved = first.VehiclesInvolved
                          /\ FactRows[i].SeverityScore = ScoreOf(first.Severity)
                          /\ \E k \in 1..Len(dim_date_df) :
                                /\ dim_date_df[k].DateID = FactRows[i].DateID
                                /\ dim_date_df[k].Date = dt_date(first.ReportedAt)
                          /\ \E k \in 1..Len(dim_location_df) :
                                /\ dim_location_df[k].LocationID = FactRows[i].LocationID
                                /\ dim_location_df[k].LocationName = first.Location

====
